---- MODULE Spec2Model ----
(***************************************************************************)
(* Model of src/main.cpp: the HelloTriangleApplication bootstrap.          *)
(*                                                                         *)
(* main() prints one line, runs app.run() inside a try block and maps a    *)
(* caught std::exception to EXIT_FAILURE.  run() calls initWindow,         *)
(* initVulkan (createInstance, pickPhysicalDevice, createLogicalDevice),   *)
(* mainLoop and cleanup in that order.  The window system and the graphics *)
(* subsystem are external: what they return is drawn from small sets at    *)
(* the call, what they are asked is recorded in `calls`, and the handles   *)
(* they currently hold alive are recorded in `live`.                       *)
(***************************************************************************)
EXTENDS Integers, Sequences, FiniteSets, TLC

(***************************************************************************)
(* Bounds of the model                                                     *)
(***************************************************************************)
\* longest physical-device enumeration
MaxDevices == 2
\* most queue families per physical device
MaxFamilies == 2
\* longest instance-layer enumeration
MaxLayers == 2
\* longest queue-family list handed to findQueueFamilies on its own
MaxScanLen == 3

(***************************************************************************)
(* Program constants                                                       *)
(***************************************************************************)
WIDTH == 800
HEIGHT == 600
validationLayers == <<"VK_LAYER_KHRONOS_validation">>

VK_NULL_HANDLE == 0
VK_SUCCESS == 0
VK_QUEUE_GRAPHICS_BIT == 1
EXIT_SUCCESS == 0
EXIT_FAILURE == 1
\* exitCode while main has not returned
NotExited == -1

\* the what() strings of the std::runtime_error objects thrown
LayerUnavailable == "validation layers requested, but not available!"
InstanceCreationFailed == "failed to create instance! Error code: "
NoDevicesFound == "failed to find GPUs with Vulkan support!"
NoSuitableDevice == "failed to find a suitable GPU!"
DeviceCreationFailed == "failed to create logical device!"

\* no exception in flight
NoException == [what |-> "", code |-> VK_SUCCESS]
\* std::runtime_error(what); code is the VkResult appended by createInstance
RuntimeError(what, code) == [what |-> what, code |-> code]

(***************************************************************************)
(* What the external collaborators may answer                              *)
(***************************************************************************)
\* layer names a host may report (strcmp is exact and case-sensitive)
HostLayerNames == {"VK_LAYER_KHRONOS_validation", "vk_layer_khronos_validation"}
\* queueFlags of a host's queue families: compute only, graphics + compute
QueueFlagValues == {2, VK_QUEUE_GRAPHICS_BIT + 2}
\* queueFlags handed to findQueueFamilies on its own: every combination of
\* the graphics, compute and transfer bits
ScanFlagValues == 0..7
\* VK_SUCCESS, VK_ERROR_LAYER_NOT_PRESENT, VK_ERROR_INCOMPATIBLE_DRIVER
InstanceResults == {VK_SUCCESS, -6, -9}
\* VK_SUCCESS, VK_ERROR_EXTENSION_NOT_PRESENT
DeviceResults == {VK_SUCCESS, -7}
\* glfwGetRequiredInstanceExtensions
glfwExtensions == <<"VK_KHR_surface", "VK_EXT_metal_surface">>

SeqsUpTo(S, n) == UNION {[1..k -> S] : k \in 0..n}
\* what vkEnumerateInstanceLayerProperties may report
LayerEnumerations == SeqsUpTo(HostLayerNames, MaxLayers)
\* what vkEnumeratePhysicalDevices may report: per device, the queueFlags of
\* its queue families in index order
DeviceEnumerations ==
    SeqsUpTo(SeqsUpTo(QueueFlagValues, MaxFamilies), MaxDevices)
\* the queue-family lists findQueueFamilies is applied to on its own
ScanInputs == SeqsUpTo(ScanFlagValues, MaxScanLen)

VARIABLES
    enableValidationLayers, \* the build: FALSE under NDEBUG, TRUE otherwise
    pc,                     \* position in main() / run()
    exception,              \* the exception in flight, caught by main
    stdout, stderr,         \* lines written
    exitCode,               \* main's return value
    window, instance, device, physicalDevice, graphicsQueue, \* members
    closeRequested,         \* the window's should-close flag
    live,                   \* handles alive in the collaborators
    calls,                  \* collaborator calls issued so far, in order
    availableLayers,        \* vkEnumerateInstanceLayerProperties' answer
    instanceCreateInfo,     \* the VkInstanceCreateInfo handed over
    devices,                \* vkEnumeratePhysicalDevices' answer
    deviceCreateInfo,       \* the VkDeviceCreateInfo handed over
    scanInput, scanResult   \* findQueueFamilies applied on its own

appVars == <<enableValidationLayers, pc, exception, stdout, stderr, exitCode,
             window, instance, device, physicalDevice, graphicsQueue,
             closeRequested, live, calls, availableLayers, instanceCreateInfo,
             devices, deviceCreateInfo>>
scanVars == <<scanInput, scanResult>>
vars == <<appVars, scanVars>>

(***************************************************************************)
(* QueueFamilyIndices                                                      *)
(***************************************************************************)
\* std::optional<uint32_t>
nullopt == [has_value |-> FALSE, value |-> 0]
Some(v) == [has_value |-> TRUE, value |-> v]

\* a default-constructed QueueFamilyIndices
QueueFamilyIndices == [graphicsFamily |-> nullopt]

isComplete(indices) == indices.graphicsFamily.has_value

\* flags & bit, for a single-bit mask
HasBit(flags, bit) == (flags \div bit) % 2 = 1

(***************************************************************************)
(* findQueueFamilies: the range-for over queueFamilies with the counter i. *)
(* k is the position of the iterator (1-based), i the counter, indices the *)
(* value accumulated so far.  earlyExit is whether the break is taken.     *)
(***************************************************************************)
RECURSIVE scanFamilies(_, _, _, _, _)
scanFamilies(queueFamilies, k, i, indices, earlyExit) ==
    IF k > Len(queueFamilies)
    THEN indices
    ELSE LET found == IF HasBit(queueFamilies[k], VK_QUEUE_GRAPHICS_BIT)
                      THEN [indices EXCEPT !.graphicsFamily = Some(i)]
                      ELSE indices
         IN  IF earlyExit /\ isComplete(found)
             THEN found
             ELSE scanFamilies(queueFamilies, k + 1, i + 1, found, earlyExit)

\* the scan with the break removed: a later graphics family overwrites
findQueueFamilies_NoBreak(queueFamilies) ==
    scanFamilies(queueFamilies, 1, 0, QueueFamilyIndices, FALSE)

findQueueFamilies(queueFamilies) ==
    scanFamilies(queueFamilies, 1, 0, QueueFamilyIndices, TRUE)

isDeviceSuitable(queueFamilies) ==
    isComplete(findQueueFamilies(queueFamilies))

(***************************************************************************)
(* checkValidationLayerSupport: every requested name is found by strcmp    *)
(* among the enumerated layers.                                            *)
(***************************************************************************)
\* strcmp's result taken as "equal" when it is non-zero
checkValidationLayerSupport_StrcmpTruthy(layers) ==
    \A n \in 1..Len(validationLayers) :
        \E m \in 1..Len(layers) : layers[m] # validationLayers[n]

checkValidationLayerSupport(layers) ==
    \A n \in 1..Len(validationLayers) :
        \E m \in 1..Len(layers) : layers[m] = validationLayers[n]

(***************************************************************************)
(* Control flow of main() and run()                                        *)
(***************************************************************************)
\* run() with initVulkan() inlined, createInstance and pickPhysicalDevice
\* exchanged
RunSteps_PickBeforeInstance ==
    <<"initWindow", "pickPhysicalDevice", "createInstance",
      "createLogicalDevice", "mainLoop", "cleanup", "return">>

\* the statements of run(), with initVulkan() inlined, then main's return
RunSteps ==
    <<"initWindow", "createInstance", "pickPhysicalDevice",
      "createLogicalDevice", "mainLoop", "cleanup", "return">>

StepAfter(s) ==
    RunSteps[(CHOOSE k \in 1..(Len(RunSteps) - 1) : RunSteps[k] = s) + 1]

\* a throw that is followed by cleanup(), whatever had been created
Throw_ThenCleanup(e) ==
    /\ exception' = e
    /\ pc' = "cleanup"

\* throw e: nothing between the throw and main's catch clause runs
Throw(e) ==
    /\ exception' = e
    /\ pc' = "catch"

Call(fn) == <<fn>>
FnOf(c) == c[1]
CountCalls(fn) == Cardinality({k \in 1..Len(calls) : FnOf(calls[k]) = fn})
\* position of the first call of fn at or after position k, 0 when none
RECURSIVE FirstCallFrom(_, _)
FirstCallFrom(fn, k) ==
    IF k > Len(calls)
    THEN 0
    ELSE IF FnOf(calls[k]) = fn THEN k ELSE FirstCallFrom(fn, k + 1)

\* position of the first call of fn, 0 when there is none
FirstCall(fn) == FirstCallFrom(fn, 1)
Called(fn) == FirstCall(fn) > 0

NoQueue == [device |-> VK_NULL_HANDLE, queueFamilyIndex |-> 0, queueIndex |-> 0]
NoCreateInfo == <<>>

(***************************************************************************)
(* State after `HelloTriangleApplication app;`                             *)
(***************************************************************************)
AppInit ==
    /\ exception = NoException
    /\ stdout = <<>>
    /\ stderr = <<>>
    /\ exitCode = NotExited
    /\ window = VK_NULL_HANDLE
    /\ instance = VK_NULL_HANDLE
    /\ device = VK_NULL_HANDLE
    /\ physicalDevice = VK_NULL_HANDLE
    /\ graphicsQueue = NoQueue
    /\ closeRequested = FALSE
    /\ live = {}
    /\ calls = <<>>
    /\ availableLayers = <<>>
    /\ instanceCreateInfo = NoCreateInfo
    /\ devices = <<>>
    /\ deviceCreateInfo = NoCreateInfo

Init ==
    /\ enableValidationLayers \in BOOLEAN
    /\ pc = "main"
    /\ AppInit
    /\ scanInput = <<>>
    /\ scanResult = <<>>

(***************************************************************************)
(* main, up to app.run()                                                   *)
(***************************************************************************)
mainStart ==
    /\ pc = "main"
    /\ stdout' = Append(stdout, <<"Validation layers enabled: ",
                                  IF enableValidationLayers THEN 1 ELSE 0>>)
    /\ pc' = RunSteps[1]
    /\ UNCHANGED <<enableValidationLayers, exception, stderr, exitCode,
                   window, instance, device, physicalDevice, graphicsQueue,
                   closeRequested, live, calls, availableLayers,
                   instanceCreateInfo, devices, deviceCreateInfo, scanVars>>

initWindow ==
    /\ pc = "initWindow"
    /\ calls' = calls \o <<Call("glfwInit"), Call("glfwWindowHint"),
                            Call("glfwWindowHint"),
                            <<"glfwCreateWindow", WIDTH, HEIGHT, "Vulkan">> >>
    /\ window' = 1
    /\ live' = live \cup {"window"}
    /\ pc' = StepAfter("initWindow")
    /\ UNCHANGED <<enableValidationLayers, exception, stdout, stderr, exitCode,
                   instance, device, physicalDevice, graphicsQueue,
                   closeRequested, availableLayers, instanceCreateInfo,
                   devices, deviceCreateInfo, scanVars>>

(***************************************************************************)
(* createInstance                                                          *)
(***************************************************************************)
\* the layer fields of a create-info structure as the if/else on
\* enableValidationLayers leaves them (zero-initialised otherwise)
ConditionalLayers(enabled) ==
    IF enabled
    THEN [enabledLayerCount |-> Len(validationLayers),
          ppEnabledLayerNames |-> validationLayers]
    ELSE [enabledLayerCount |-> 0, ppEnabledLayerNames |-> <<>>]

\* the VkInstanceCreateInfo createInstance hands to vkCreateInstance: the
\* conditional block, then the extension fields, then the layer fields
\* assigned once more, unconditionally
InstanceCreateInfo(enabled) ==
    LET conditional == ConditionalLayers(enabled)
        withExtensions ==
            [flags |-> "VK_INSTANCE_CREATE_ENUMERATE_PORTABILITY_BIT_KHR",
             pApplicationName |-> "Hello Triangle",
             pEngineName |-> "No Engine",
             enabledExtensionNames |->
                 Append(glfwExtensions, "VK_KHR_portability_enumeration"),
             enabledLayerCount |-> conditional.enabledLayerCount,
             ppEnabledLayerNames |-> conditional.ppEnabledLayerNames]
    IN  [withExtensions EXCEPT
            !.enabledLayerCount = Len(validationLayers),
            !.ppEnabledLayerNames = validationLayers]

\* the part of createInstance after the layer check
requestInstance ==
    \E result \in InstanceResults :
        /\ instanceCreateInfo' = InstanceCreateInfo(enableValidationLayers)
        /\ IF result = VK_SUCCESS
           THEN /\ instance' = 1
                /\ live' = live \cup {"instance"}
                /\ pc' = StepAfter("createInstance")
                /\ UNCHANGED exception
           ELSE /\ Throw(RuntimeError(InstanceCreationFailed, result))
                /\ UNCHANGED <<instance, live>>

createInstance ==
    /\ pc = "createInstance"
    /\ IF enableValidationLayers
       THEN \E layers \in LayerEnumerations :
               /\ availableLayers' = layers
               /\ IF ~checkValidationLayerSupport(layers)
                  THEN /\ calls' = calls \o
                               <<Call("vkEnumerateInstanceLayerProperties"),
                                 Call("vkEnumerateInstanceLayerProperties")>>
                       /\ Throw(RuntimeError(LayerUnavailable, VK_SUCCESS))
                       /\ UNCHANGED <<instance, live, instanceCreateInfo>>
                  ELSE /\ calls' = calls \o
                               <<Call("vkEnumerateInstanceLayerProperties"),
                                 Call("vkEnumerateInstanceLayerProperties"),
                                 Call("glfwGetRequiredInstanceExtensions"),
                                 Call("vkCreateInstance")>>
                       /\ requestInstance
       ELSE /\ calls' = calls \o
                    <<Call("glfwGetRequiredInstanceExtensions"),
                      Call("vkCreateInstance")>>
            /\ requestInstance
            /\ UNCHANGED availableLayers
    /\ UNCHANGED <<enableValidationLayers, stdout, stderr, exitCode, window,
                   device, physicalDevice, graphicsQueue, closeRequested,
                   devices, deviceCreateInfo, scanVars>>

(***************************************************************************)
(* pickPhysicalDevice                                                      *)
(***************************************************************************)
\* the loop over the candidates without its break: the last suitable wins
RECURSIVE selectDevice_NoBreak(_, _, _)
selectDevice_NoBreak(devs, k, picked) ==
    IF k > Len(devs)
    THEN picked
    ELSE selectDevice_NoBreak(devs, k + 1,
                              IF isDeviceSuitable(devs[k]) THEN k ELSE picked)

\* the loop over the candidates from position k on; picked is the value of
\* the member physicalDevice.  The k-th enumerated handle is modelled as k.
RECURSIVE selectDevice(_, _, _)
selectDevice(devs, k, picked) ==
    IF k > Len(devs)
    THEN picked
    ELSE IF isDeviceSuitable(devs[k])
         THEN k
         ELSE selectDevice(devs, k + 1, picked)

\* the two throws of pickPhysicalDevice, without the deviceCount test
pickFailure_NoCountCheck(devs, picked) ==
    IF picked = VK_NULL_HANDLE THEN NoSuitableDevice ELSE ""

\* what pickPhysicalDevice throws, "" when it returns normally
pickFailure(devs, picked) ==
    IF Len(devs) = 0
    THEN NoDevicesFound
    ELSE IF picked = VK_NULL_HANDLE THEN NoSuitableDevice ELSE ""

pickPhysicalDevice ==
    /\ pc = "pickPhysicalDevice"
    /\ \E devs \in DeviceEnumerations :
          LET picked == IF Len(devs) = 0
                        THEN physicalDevice
                        ELSE selectDevice(devs, 1, physicalDevice)
              failure == pickFailure(devs, picked)
          IN  /\ devices' = devs
              /\ calls' = calls \o
                     (IF Len(devs) = 0
                      THEN <<Call("vkEnumeratePhysicalDevices")>>
                      ELSE <<Call("vkEnumeratePhysicalDevices"),
                             Call("vkEnumeratePhysicalDevices")>>)
              /\ physicalDevice' = picked
              /\ IF failure # ""
                 THEN Throw(RuntimeError(failure, VK_SUCCESS))
                 ELSE /\ pc' = StepAfter("pickPhysicalDevice")
                      /\ UNCHANGED exception
    /\ UNCHANGED <<enableValidationLayers, stdout, stderr, exitCode, window,
                   instance, device, graphicsQueue, closeRequested, live,
                   availableLayers, instanceCreateInfo, deviceCreateInfo,
                   scanVars>>

(***************************************************************************)
(* createLogicalDevice                                                     *)
(***************************************************************************)
\* vkGetPhysicalDeviceQueueFamilyProperties(physicalDevice, ...): the queue
\* families of the selected device
selectedQueueFamilies == devices[physicalDevice]

\* the queue-creation entry with the family index left at its zero default
QueueCreateInfo_FamilyZero(indices) ==
    [queueFamilyIndex |-> 0,
     queueCount |-> 1,
     pQueuePriorities |-> <<"1.0f">>]

\* VkDeviceQueueCreateInfo for the family found
QueueCreateInfo(indices) ==
    [queueFamilyIndex |-> indices.graphicsFamily.value,
     queueCount |-> 1,
     pQueuePriorities |-> <<"1.0f">>]

\* the VkDeviceCreateInfo createLogicalDevice hands to vkCreateDevice
DeviceCreateInfo(indices, enabled) ==
    [queueCreateInfoCount |-> 1,
     pQueueCreateInfos |-> <<QueueCreateInfo(indices)>>,
     enabledFeatures |-> {},
     enabledExtensionNames |-> <<"VK_KHR_swapchain", "VK_KHR_portability_subset">>,
     enabledLayerCount |-> ConditionalLayers(enabled).enabledLayerCount,
     ppEnabledLayerNames |-> ConditionalLayers(enabled).ppEnabledLayerNames]

createLogicalDevice ==
    /\ pc = "createLogicalDevice"
    /\ LET indices == findQueueFamilies(selectedQueueFamilies)
       IN  IF ~indices.graphicsFamily.has_value
           THEN \* optional::value() throws std::bad_optional_access
                /\ Throw(RuntimeError("bad optional access", VK_SUCCESS))
                /\ UNCHANGED <<device, graphicsQueue, live, calls,
                               deviceCreateInfo>>
           ELSE \E result \in DeviceResults :
                /\ deviceCreateInfo' =
                       DeviceCreateInfo(indices, enableValidationLayers)
                /\ IF result # VK_SUCCESS
                   THEN /\ calls' = Append(calls, Call("vkCreateDevice"))
                        /\ Throw(RuntimeError(DeviceCreationFailed, VK_SUCCESS))
                        /\ UNCHANGED <<device, graphicsQueue, live>>
                   ELSE /\ calls' = calls \o <<Call("vkCreateDevice"),
                                                Call("vkGetDeviceQueue")>>
                        /\ device' = 1
                        /\ live' = live \cup {"device"}
                        /\ graphicsQueue' =
                               [device |-> 1,
                                queueFamilyIndex |-> indices.graphicsFamily.value,
                                queueIndex |-> 0]
                        /\ pc' = StepAfter("createLogicalDevice")
                        /\ UNCHANGED exception
    /\ UNCHANGED <<enableValidationLayers, stdout, stderr, exitCode, window,
                   instance, physicalDevice, closeRequested, availableLayers,
                   instanceCreateInfo, devices, scanVars>>

(***************************************************************************)
(* mainLoop                                                                *)
(***************************************************************************)
\* one iteration: glfwWindowShouldClose was false, glfwPollEvents runs the
\* window's callbacks, which may deliver a close request
pollEvents ==
    /\ pc = "mainLoop"
    /\ ~closeRequested
    /\ closeRequested' \in BOOLEAN
    /\ UNCHANGED <<enableValidationLayers, pc, exception, stdout, stderr,
                   exitCode, window, instance, device, physicalDevice,
                   graphicsQueue, live, calls, availableLayers,
                   instanceCreateInfo, devices, deviceCreateInfo, scanVars>>

\* the loop left without testing glfwWindowShouldClose
mainLoopExit_NoCloseTest ==
    /\ pc = "mainLoop"
    /\ pc' = StepAfter("mainLoop")
    /\ UNCHANGED <<enableValidationLayers, exception, stdout, stderr,
                   exitCode, window, instance, device, physicalDevice,
                   graphicsQueue, closeRequested, live, calls, availableLayers,
                   instanceCreateInfo, devices, deviceCreateInfo, scanVars>>

\* glfwWindowShouldClose is true: the loop ends
mainLoopExit ==
    /\ pc = "mainLoop"
    /\ closeRequested
    /\ pc' = StepAfter("mainLoop")
    /\ UNCHANGED <<enableValidationLayers, exception, stdout, stderr,
                   exitCode, window, instance, device, physicalDevice,
                   graphicsQueue, closeRequested, live, calls, availableLayers,
                   instanceCreateInfo, devices, deviceCreateInfo, scanVars>>

(***************************************************************************)
(* cleanup                                                                 *)
(***************************************************************************)
\* the destroy calls in creation order
cleanupOrder_CreationOrder ==
    <<[fn |-> "glfwDestroyWindow", handle |-> "window"],
      [fn |-> "vkDestroyInstance", handle |-> "instance"],
      [fn |-> "vkDestroyDevice", handle |-> "device"]>>

\* the destroy calls of cleanup(), in the order written
cleanupOrder ==
    <<[fn |-> "vkDestroyDevice", handle |-> "device"],
      [fn |-> "vkDestroyInstance", handle |-> "instance"],
      [fn |-> "glfwDestroyWindow", handle |-> "window"]>>

cleanup ==
    /\ pc = "cleanup"
    /\ calls' = calls \o [k \in 1..Len(cleanupOrder) |-> Call(cleanupOrder[k].fn)]
                      \o <<Call("glfwTerminate")>>
    /\ live' = live \ {cleanupOrder[k].handle : k \in 1..Len(cleanupOrder)}
    /\ pc' = StepAfter("cleanup")
    /\ UNCHANGED <<enableValidationLayers, exception, stdout, stderr,
                   exitCode, window, instance, device, physicalDevice,
                   graphicsQueue, closeRequested, availableLayers,
                   instanceCreateInfo, devices, deviceCreateInfo, scanVars>>

(***************************************************************************)
(* main, after app.run()                                                   *)
(***************************************************************************)
\* a catch clause that reports and still returns EXIT_SUCCESS
mainCatch_ReturnsSuccess ==
    /\ pc = "catch"
    /\ stderr' = Append(stderr, exception)
    /\ exitCode' = EXIT_SUCCESS
    /\ pc' = "exited"
    /\ UNCHANGED <<enableValidationLayers, exception, stdout, window,
                   instance, device, physicalDevice, graphicsQueue,
                   closeRequested, live, calls, availableLayers,
                   instanceCreateInfo, devices, deviceCreateInfo, scanVars>>

\* catch (const std::exception& e): e.what() to std::cerr, EXIT_FAILURE
mainCatch ==
    /\ pc = "catch"
    /\ stderr' = Append(stderr, exception)
    /\ exitCode' = EXIT_FAILURE
    /\ pc' = "exited"
    /\ UNCHANGED <<enableValidationLayers, exception, stdout, window,
                   instance, device, physicalDevice, graphicsQueue,
                   closeRequested, live, calls, availableLayers,
                   instanceCreateInfo, devices, deviceCreateInfo, scanVars>>

\* return EXIT_SUCCESS
mainReturn ==
    /\ pc = "return"
    /\ exitCode' = EXIT_SUCCESS
    /\ pc' = "exited"
    /\ UNCHANGED <<enableValidationLayers, exception, stdout, stderr, window,
                   instance, device, physicalDevice, graphicsQueue,
                   closeRequested, live, calls, availableLayers,
                   instanceCreateInfo, devices, deviceCreateInfo, scanVars>>

Next ==
    \/ mainStart
    \/ initWindow
    \/ createInstance
    \/ pickPhysicalDevice
    \/ createLogicalDevice
    \/ pollEvents
    \/ mainLoopExit
    \/ cleanup
    \/ mainCatch
    \/ mainReturn

Spec == Init /\ [][Next]_vars

\* The program is one thread that keeps executing: a statement that can run
\* does run.  Nothing obliges the window system to deliver a close request,
\* so pollEvents carries no fairness.
SpecFair ==
    /\ Init
    /\ [][Next]_vars
    /\ WF_vars(mainStart)
    /\ WF_vars(initWindow)
    /\ WF_vars(createInstance)
    /\ WF_vars(pickPhysicalDevice)
    /\ WF_vars(createLogicalDevice)
    /\ WF_vars(mainLoopExit)
    /\ WF_vars(cleanup)
    /\ WF_vars(mainCatch)
    /\ WF_vars(mainReturn)

(***************************************************************************)
(* findQueueFamilies on its own: any queue-family list, then the call      *)
(***************************************************************************)
InitScan ==
    /\ enableValidationLayers = FALSE
    /\ pc = "scan"
    /\ AppInit
    /\ scanInput \in ScanInputs
    /\ scanResult = <<>>

scanCall ==
    /\ pc = "scan"
    /\ scanResult = <<>>
    /\ scanResult' = <<findQueueFamilies(scanInput)>>
    /\ UNCHANGED <<appVars, scanInput>>

NextScan == scanCall

SpecScan == InitScan /\ [][NextScan]_vars

(***************************************************************************)
(* Properties                                                              *)
(***************************************************************************)
\* a queue family whose flags include the graphics bit (bit 0)
GraphicsCapable(flags) == flags % 2 = 1
\* positions (1-based) of the graphics-capable families of a device
GraphicsFamilies(families) ==
    {j \in 1..Len(families) : GraphicsCapable(families[j])}
\* positions (1-based) of the enumerated devices with such a family
SuitableDevices == {k \in 1..Len(devices) : GraphicsFamilies(devices[k]) # {}}
Min(S) == CHOOSE x \in S : \A y \in S : x <= y
SetupFailed == exception # NoException
FnsOf(cs) == [k \in 1..Len(cs) |-> FnOf(cs[k])]
IsDestroy(c) ==
    FnOf(c) \in {"vkDestroyDevice", "vkDestroyInstance", "glfwDestroyWindow"}

\* C1: when a setup operation has failed and main has returned, every
\* resource created before the failure (window, instance) has been released.
C1_ReleasedOnSetupFailure ==
    (pc = "exited" /\ SetupFailed) => live = {}

\* C2: once teardown has run, the destroy calls issued are exactly
\* vkDestroyDevice, vkDestroyInstance, glfwDestroyWindow, in that order and
\* once each, the reverse of the order in which the three were created; no
\* destroy call is issued outside teardown.
C2_TeardownReverseOrder ==
    IF Called("glfwTerminate")
    THEN LET createdWindow == FirstCall("glfwCreateWindow")
             createdInstance == FirstCall("vkCreateInstance")
             createdDevice == FirstCall("vkCreateDevice")
         IN  /\ FnsOf(SelectSeq(calls, IsDestroy)) =
                   <<"vkDestroyDevice", "vkDestroyInstance", "glfwDestroyWindow">>
             /\ 0 < createdWindow
             /\ createdWindow < createdInstance
             /\ createdInstance < createdDevice
             /\ createdDevice < FirstCall("vkDestroyDevice")
             /\ live = {}
    ELSE SelectSeq(calls, IsDestroy) = <<>>

C2_Witness ==
    /\ pc = "exited"
    /\ Called("vkDestroyDevice")
    /\ Called("glfwDestroyWindow")

\* C3: with diagnostics disabled, checkValidationLayerSupport is never
\* invoked (its layer enumeration is never issued) and the request handed to
\* vkCreateInstance has enabledLayerCount 0.
C3_NoLayersWhenDisabled ==
    ~enableValidationLayers =>
        /\ ~Called("vkEnumerateInstanceLayerProperties")
        /\ Called("vkCreateInstance") =>
               instanceCreateInfo.enabledLayerCount = 0

\* C4: with diagnostics enabled and a requested layer missing from the
\* enumerated layers, checkValidationLayerSupport is false, createInstance
\* has thrown LayerUnavailable, vkCreateInstance was never called and no
\* instance handle exists.
C4_LayerUnavailable ==
    ( /\ enableValidationLayers
      /\ Called("vkEnumerateInstanceLayerProperties")
      /\ \E n \in 1..Len(validationLayers) :
            \A m \in 1..Len(availableLayers) :
                availableLayers[m] # validationLayers[n] )
    => /\ ~checkValidationLayerSupport(availableLayers)
       /\ exception = RuntimeError(LayerUnavailable, VK_SUCCESS)
       /\ pc \in {"catch", "exited"}
       /\ ~Called("vkCreateInstance")
       /\ ~Called("glfwGetRequiredInstanceExtensions")
       /\ instance = VK_NULL_HANDLE
       /\ "instance" \notin live

C4_Witness ==
    /\ pc = "exited"
    /\ enableValidationLayers
    /\ availableLayers = <<"vk_layer_khronos_validation">>
    /\ exception.what = LayerUnavailable

\* C5: when the enumeration holds a suitable device, pickPhysicalDevice
\* selects the first one in enumeration order and throws nothing.
C5_FirstSuitable ==
    (Called("vkEnumeratePhysicalDevices") /\ SuitableDevices # {})
    => /\ physicalDevice = Min(SuitableDevices)
       /\ exception.what \notin {NoDevicesFound, NoSuitableDevice}
       /\ pc \notin {"pickPhysicalDevice", "createInstance"}

C5_Witness ==
    /\ Len(devices) = 2
    /\ SuitableDevices = {1, 2}
    /\ physicalDevice = 1
    /\ pc = "createLogicalDevice"

\* C6: pickPhysicalDevice throws NoDevicesFound exactly when the enumeration
\* is empty, NoSuitableDevice exactly when it is non-empty without a
\* suitable device, and selects no physical device in either case.
C6_PickFailures ==
    Called("vkEnumeratePhysicalDevices")
    => /\ (exception.what = NoDevicesFound) <=> (Len(devices) = 0)
       /\ (exception.what = NoSuitableDevice) <=>
              (Len(devices) > 0 /\ SuitableDevices = {})
       /\ exception.what \in {NoDevicesFound, NoSuitableDevice} =>
              /\ physicalDevice = VK_NULL_HANDLE
              /\ pc \in {"catch", "exited"}
              /\ ~Called("vkCreateDevice")

C6_Witness ==
    /\ pc = "exited"
    /\ Len(devices) = 2
    /\ exception.what = NoSuitableDevice

\* C7: findQueueFamilies yields the lowest (0-based) index of a family whose
\* flags include the graphics bit, and no value when there is none.
C7_LowestGraphicsFamily ==
    scanResult # <<>> =>
        LET r == scanResult[1].graphicsFamily
            g == GraphicsFamilies(scanInput)
        IN  IF g = {}
            THEN ~r.has_value
            ELSE r.has_value /\ r.value = Min(g) - 1

C7_Witness ==
    /\ scanResult # <<>>
    /\ Len(scanInput) = 3
    /\ GraphicsFamilies(scanInput) = {2, 3}
    /\ scanResult[1].graphicsFamily = Some(1)

C9_ExitCode ==
    pc = "exited" =>
        /\ exitCode \in {EXIT_SUCCESS, EXIT_FAILURE}
        /\ (exitCode = 0) <=>
               /\ ~SetupFailed
               /\ device # VK_NULL_HANDLE
               /\ closeRequested
               /\ Called("glfwTerminate")
        /\ SetupFailed => (exitCode = 1 /\ stderr = <<exception>>)
        /\ (exitCode = 1) => exception.what \in
               {LayerUnavailable, InstanceCreationFailed, NoDevicesFound,
                NoSuitableDevice, DeviceCreationFailed}

C9_Witness ==
    /\ pc = "exited"
    /\ exitCode = 1
    /\ exception.what = DeviceCreationFailed

\* C10: the request handed to vkCreateDevice holds exactly one
\* queue-creation entry, for one queue, of the lowest graphics-capable family
\* of the selected physical device; the queue then retrieved is queue 0 of
\* that family of the new device.
C10_OneGraphicsQueue ==
    Called("vkCreateDevice") =>
        LET family == Min(GraphicsFamilies(devices[physicalDevice])) - 1
        IN  /\ deviceCreateInfo.queueCreateInfoCount = 1
            /\ Len(deviceCreateInfo.pQueueCreateInfos) = 1
            /\ deviceCreateInfo.pQueueCreateInfos[1].queueCount = 1
            /\ deviceCreateInfo.pQueueCreateInfos[1].queueFamilyIndex = family
            /\ Called("vkGetDeviceQueue") <=> device # VK_NULL_HANDLE
            /\ device # VK_NULL_HANDLE =>
                   graphicsQueue = [device |-> device,
                                    queueFamilyIndex |-> family,
                                    queueIndex |-> 0]

C10_Witness ==
    /\ Len(devices) = 2
    /\ SuitableDevices = {2}
    /\ physicalDevice = 2
    /\ device # VK_NULL_HANDLE
    /\ graphicsQueue.queueFamilyIndex = 1

\* C11: in both builds the layer list of the device-creation request equals
\* the layer list of the instance-creation request, and the two are
\* non-empty only when diagnostics are enabled.
C11_DeviceMirrorsInstanceLayers ==
    Called("vkCreateDevice") =>
        /\ deviceCreateInfo.enabledLayerCount =
               instanceCreateInfo.enabledLayerCount
        /\ deviceCreateInfo.ppEnabledLayerNames =
               instanceCreateInfo.ppEnabledLayerNames
        /\ instanceCreateInfo.enabledLayerCount > 0 => enableValidationLayers
        /\ deviceCreateInfo.enabledLayerCount > 0 => enableValidationLayers

\* the scan of findQueueFamilies with its early exit removed: every family
\* is visited
fullScan(queueFamilies) ==
    scanFamilies(queueFamilies, 1, 0, QueueFamilyIndices, FALSE)
Max(S) == CHOOSE x \in S : \A y \in S : x >= y

\* C12 as stated: for every list of queue families, the scan as written and
\* the scan without the early exit return the same graphics index.
C12_FullScanSameIndex ==
    scanResult # <<>> =>
        scanResult[1].graphicsFamily = fullScan(scanInput).graphicsFamily

\* C12 as amended: the two scans agree on whether a graphics family exists;
\* the scan as written returns the lowest graphics-capable index, the scan
\* without the early exit the highest, so they return the same index exactly
\* when at most one family has the graphics bit.
C12_FullScanAgreesIffUnique ==
    scanResult # <<>> =>
        LET early == scanResult[1].graphicsFamily
            full == fullScan(scanInput).graphicsFamily
            g == GraphicsFamilies(scanInput)
        IN  /\ early.has_value <=> full.has_value
            /\ g # {} => /\ early.value = Min(g) - 1
                          /\ full.value = Max(g) - 1
            /\ (early = full) <=> (Cardinality(g) <= 1)

C12_Witness ==
    /\ scanResult # <<>>
    /\ scanInput = <<2, 1, 3>>
    /\ scanResult[1].graphicsFamily = Some(1)
    /\ fullScan(scanInput).graphicsFamily = Some(2)

\* C13: the main loop is left only with a close request observed, and only
\* into cleanup; a step that stays in the loop changes nothing but the
\* close flag (no collaborator call such as a queue submission, no
\* exception); and once a close request is observed in the loop, main
\* eventually returns 0 with device, instance and window destroyed.
C13_MainLoop ==
    /\ [][ pc = "mainLoop" =>
             /\ pc' # "mainLoop" => (closeRequested /\ pc' = "cleanup")
             /\ pc' = "mainLoop" =>
                    /\ calls' = calls
                    /\ exception' = exception
                    /\ live' = live
                    /\ graphicsQueue' = graphicsQueue
                    /\ <<window, instance, device>>' = <<window, instance, device>>
          ]_vars
    /\ (pc = "mainLoop" /\ closeRequested) ~>
           ( /\ pc = "exited"
             /\ exitCode = EXIT_SUCCESS
             /\ live = {}
             /\ Called("vkDestroyDevice")
             /\ Called("vkDestroyInstance")
             /\ Called("glfwDestroyWindow") )

C13_Witness ==
    /\ pc = "exited"
    /\ closeRequested
    /\ exitCode = EXIT_SUCCESS
    /\ live = {}

\* the collaborator calls that take the handle, or something the handle owns
UsersOf(handle) ==
    CASE handle = "device" -> {"vkGetDeviceQueue", "vkDestroyDevice"}
      [] handle = "instance" -> {"vkEnumeratePhysicalDevices", "vkCreateDevice",
                                 "vkGetDeviceQueue", "vkDestroyDevice",
                                 "vkDestroyInstance"}
      [] handle = "window" -> {"glfwDestroyWindow"}
DestroyOf(handle) ==
    CASE handle = "device" -> "vkDestroyDevice"
      [] handle = "instance" -> "vkDestroyInstance"
      [] handle = "window" -> "glfwDestroyWindow"
CreateOf(handle) ==
    CASE handle = "device" -> "vkCreateDevice"
      [] handle = "instance" -> "vkCreateInstance"
      [] handle = "window" -> "glfwCreateWindow"
MemberOf(handle) ==
    CASE handle = "device" -> device
      [] handle = "instance" -> instance
      [] handle = "window" -> window

\* C14: on every path, a destroy call is issued only for a handle that was
\* created, at most once per handle, and no call that takes a handle (or a
\* handle it owns, the graphics queue included) follows that handle's
\* destruction; the main loop, which polls the window, runs only while
\* window, instance and device are alive.
C14_HandleLifetimes ==
    /\ \A h \in {"device", "instance", "window"} :
          LET destroyed == FirstCall(DestroyOf(h))
          IN  /\ CountCalls(DestroyOf(h)) <= 1
              /\ destroyed > 0 =>
                    /\ MemberOf(h) # VK_NULL_HANDLE
                    /\ FirstCall(CreateOf(h)) > 0
                    /\ FirstCall(CreateOf(h)) < destroyed
                    /\ h \notin live
                    /\ \A k \in (destroyed + 1)..Len(calls) :
                          FnOf(calls[k]) \notin UsersOf(h)
              /\ h \in live => (MemberOf(h) # VK_NULL_HANDLE /\ destroyed = 0)
    /\ graphicsQueue # NoQueue =>
          /\ graphicsQueue.device = device
          /\ device # VK_NULL_HANDLE
    /\ pc = "mainLoop" => live = {"window", "instance", "device"}
    /\ SetupFailed => SelectSeq(calls, IsDestroy) = <<>>

C14_Witness ==
    /\ pc = "return"
    /\ live = {}
    /\ graphicsQueue # NoQueue
    /\ Called("vkDestroyInstance")

====
